---- MODULE Spec2Model ----
(***************************************************************************)
(* A model of present/markdown.py: the typed elements built from markdown  *)
(* AST nodes, the Codio scripted-session element, Slide construction with  *)
(* its style validation, and Markdown.parse, which buffers elements and    *)
(* splits them into Slides at thematic breaks.                             *)
(***************************************************************************)
EXTENDS Integers, Sequences, FiniteSets, TLC

VARIABLES
    ast,        \* Markdown.parse: the node list returned by markdown(text, renderer="ast")
    i,          \* Markdown.parse: 1-based position of the loop in ast
    buffer,     \* Markdown.parse: the element buffer
    slides,     \* Markdown.parse: the Slides appended so far
    sliden,     \* Markdown.parse: the flush counter
    pc,         \* Markdown.parse: "loop", "done" (returned) or "failed" (raised)
    err,        \* Markdown.parse: the exception raised, NoError otherwise
    s_elements, \* Slide.__init__: the elements argument
    s_slide,    \* Slide.__init__: the object under construction
    s_pc,       \* Slide.__init__: "new", "built" (returned) or "raised"
    el,         \* an element: its type and the obj it stores
    term,       \* shutil.get_terminal_size(): <<columns, lines>>
    rendered,   \* whether render() was called on el
    r_out,      \* what the last render() gave, <<>> before it
    size_first, \* what size gave before any render(), <<>> if not read then
    size_after, \* what size gave after a render(), <<>> if not read then
    w_out       \* what Codio.width gave, <<>> before it

vars ==
    <<ast, i, buffer, slides, sliden, pc, err, s_elements, s_slide, s_pc,
      el, term, rendered, r_out, size_first, size_after, w_out>>

parseVars == <<ast, i, buffer, slides, sliden, pc, err>>
slideVars == <<s_elements, s_slide, s_pc>>
elemVars == <<el, term, rendered, r_out, size_first, size_after, w_out>>

\* Python's None, for a dict.get() that finds no key.
None == "None"

(***************************************************************************)
(* AST nodes.  A node is the dict mistune's AST renderer produces; the     *)
(* model keeps the keys markdown.py reads: "type", "children", "alt",      *)
(* whether the file named by "src" exists, and, for raw markup, the list   *)
(* of (key, value) pairs that re.findall(r"((\w+)=(\w+))") yields on its   *)
(* "text".                                                                 *)
(***************************************************************************)
Node(t) == [type |-> t, kv |-> <<>>, alt |-> "", exists |-> TRUE, children |-> <<>>]

Html(kv) == [Node("block_html") EXCEPT !.kv = kv]

ImageNode(alt, exists) == [Node("image") EXCEPT !.alt = alt, !.exists = exists]

Paragraph(children) == [Node("paragraph") EXCEPT !.children = children]

(***************************************************************************)
(* The external registries of present/effects.py.                          *)
(***************************************************************************)
EFFECTS == {"fireworks", "explosions", "stars", "matrix", "plasma"}

COLORMAP ==
    [c \in {"black", "red", "green", "yellow", "blue", "magenta", "cyan", "white"} |->
        CASE c = "black" -> 0
          [] c = "red" -> 1
          [] c = "green" -> 2
          [] c = "yellow" -> 3
          [] c = "blue" -> 4
          [] c = "magenta" -> 5
          [] c = "cyan" -> 6
          [] c = "white" -> 7]

(***************************************************************************)
(* Exceptions.  Every failure of markdown.py is a ValueError told apart    *)
(* by its message, or a FileNotFoundError; the record keeps what the       *)
(* message carries: the slide number of "(Slide n)" (0: the message has    *)
(* none) and the name it quotes ("": the message quotes none).             *)
(***************************************************************************)
NoError == [kind |-> "none", msg |-> "", slide |-> 0, name |-> ""]

Error(kind, msg, slide, name) == [kind |-> kind, msg |-> msg, slide |-> slide, name |-> name]

UnsupportedElementKind(slide, name) ==
    Error("UnsupportedElementKind", "(Slide {}) {} is not supported", slide, name)

UnsupportedEffect(name) == Error("UnsupportedEffect", "Effect {} is not supported", 0, name)

UnsupportedColor(name) == Error("UnsupportedColor", "Color {} is not supported", 0, name)

EffectsAndColors ==
    Error("IncompatibleStyle", "Effects and colors on the same slide are not supported", 0, "")

EffectsAndCode ==
    Error("IncompatibleStyle", "Effects and code on the same slide are not supported", 0, "")

MissingAsset(name) == Error("MissingAsset", "{} does not exist", 0, name)

\* What a call gave: the value returned, or the exception raised.
Ok(v) == [ok |-> TRUE, value |-> v, exc |-> ""]

Raised(exc) == [ok |-> FALSE, value |-> 0, exc |-> exc]

RaisedText(exc) == [ok |-> FALSE, value |-> <<>>, exc |-> exc]

(***************************************************************************)
(* Text.  A str is the sequence of its characters; NL is "\n".             *)
(***************************************************************************)
NL == "NL"

Max(a, b) == IF a >= b THEN a ELSE b

\* s.count(c)
Count(s, c) == Cardinality({j \in 1..Len(s) : s[j] = c})

\* c * n
Repeat(c, n) == [j \in 1..n |-> c]

(***************************************************************************)
(* BlockHtml.style: the dict {key: value} of the pairs found, a later pair *)
(* replacing an earlier one with the same key; StyleGet is dict.get(key).  *)
(***************************************************************************)
StyleGet(kv, key) ==
    LET at == {j \in 1..Len(kv) : kv[j][1] = key}
    IN  IF at = {} THEN None
        ELSE kv[CHOOSE j \in at : \A k \in at : k <= j][2]

StyleKeys == {"effect", "fg", "bg"}

BlockHtmlStyle(obj) == [k \in StyleKeys |-> StyleGet(obj.kv, k)]

EmptyStyle == [k \in StyleKeys |-> None]

(***************************************************************************)
(* Slide.__init__                                                          *)
(***************************************************************************)
DefaultFg == 0
DefaultBg == 7
EffectFg == 7
EffectBg == 0

HasType(elements, t) == \E j \in 1..Len(elements) : elements[j].type = t

\* The scan of lines 245-248: the style of the last "html" element.
SlideStyle(elements) ==
    LET at == {j \in 1..Len(elements) : elements[j].type = "html"}
    IN  IF at = {} THEN EmptyStyle
        ELSE BlockHtmlStyle(elements[CHOOSE j \in at : \A k \in at : k <= j].obj)

\* SlideCheck without the check of lines 284-285.
SlideCheck_NoCodeCheck(style, has_code) ==
    IF style["effect"] # None /\ style["effect"] \notin EFFECTS
    THEN UnsupportedEffect(style["effect"])
    ELSE IF style["fg"] # None /\ style["fg"] \notin DOMAIN COLORMAP
    THEN UnsupportedColor(style["fg"])
    ELSE IF style["bg"] # None /\ style["bg"] \notin DOMAIN COLORMAP
    THEN UnsupportedColor(style["bg"])
    ELSE IF style["effect"] # None /\ (style["fg"] # None \/ style["bg"] # None)
    THEN EffectsAndColors
    ELSE NoError

\* SlideCheck with the conflict checks of lines 279-285 moved before the color
\* lookups of lines 267-277.
SlideCheck_ConflictFirst(style, has_code) ==
    IF style["effect"] # None /\ style["effect"] \notin EFFECTS
    THEN UnsupportedEffect(style["effect"])
    ELSE IF style["effect"] # None /\ (style["fg"] # None \/ style["bg"] # None)
    THEN EffectsAndColors
    ELSE IF style["effect"] # None /\ has_code
    THEN EffectsAndCode
    ELSE IF style["fg"] # None /\ style["fg"] \notin DOMAIN COLORMAP
    THEN UnsupportedColor(style["fg"])
    ELSE IF style["bg"] # None /\ style["bg"] \notin DOMAIN COLORMAP
    THEN UnsupportedColor(style["bg"])
    ELSE NoError

\* Lines 261-285 as the first raise reached, NoError when none is.
SlideCheck(style, has_code) ==
    IF style["effect"] # None /\ style["effect"] \notin EFFECTS
    THEN UnsupportedEffect(style["effect"])
    ELSE IF style["fg"] # None /\ style["fg"] \notin DOMAIN COLORMAP
    THEN UnsupportedColor(style["fg"])
    ELSE IF style["bg"] # None /\ style["bg"] \notin DOMAIN COLORMAP
    THEN UnsupportedColor(style["bg"])
    ELSE IF style["effect"] # None /\ (style["fg"] # None \/ style["bg"] # None)
    THEN EffectsAndColors
    ELSE IF style["effect"] # None /\ has_code
    THEN EffectsAndCode
    ELSE NoError

\* SlideColors without the override of lines 287-288.
SlideColors_NoOverride(style) ==
    <<IF style["fg"] # None THEN COLORMAP[style["fg"]] ELSE DefaultFg,
      IF style["bg"] # None THEN COLORMAP[style["bg"]] ELSE DefaultBg>>

\* Lines 239-240, 267-277 and 287-288: <<fg_color, bg_color>> of a Slide that
\* passed the checks.
SlideColors(style) ==
    IF style["effect"] # None
    THEN <<EffectFg, EffectBg>>
    ELSE <<IF style["fg"] # None THEN COLORMAP[style["fg"]] ELSE DefaultFg,
           IF style["bg"] # None THEN COLORMAP[style["bg"]] ELSE DefaultBg>>

\* Slide(elements=...): the object built, or the exception raised (ok = FALSE).
SlideInit(elements) ==
    LET style == SlideStyle(elements)
        has_code == HasType(elements, "code")
        e == SlideCheck(style, has_code)
        colors == SlideColors(style)
    IN  [ok         |-> e = NoError,
         error      |-> e,
         elements   |-> elements,
         has_style  |-> HasType(elements, "html"),
         has_effect |-> style["effect"] # None,
         has_image  |-> HasType(elements, "image"),
         has_code   |-> has_code,
         has_codio  |-> HasType(elements, "codio"),
         style      |-> style,
         effect     |-> style["effect"],
         fg_color   |-> IF e = NoError THEN colors[1] ELSE DefaultFg,
         bg_color   |-> IF e = NoError THEN colors[2] ELSE DefaultBg]

(***************************************************************************)
(* The element classes.  ElementName is obj["type"].title().replace("_",   *)
(* "") on the type tags of the model; eval() of a name that is no class    *)
(* of the module raises NameError.                                         *)
(***************************************************************************)
ElementName(type) ==
    CASE type = "heading" -> "Heading"
      [] type = "text" -> "Text"
      [] type = "list" -> "List"
      [] type = "block_code" -> "BlockCode"
      [] type = "block_html" -> "BlockHtml"
      [] type = "image" -> "Image"
      [] type = "codio" -> "Codio"
      [] type = "thematic_break" -> "ThematicBreak"
      [] type = "newline" -> "Newline"
      [] type = "paragraph" -> "Paragraph"
      [] type = "table" -> "Table"
      [] type = "strong" -> "Strong"
      [] type = "inline_html" -> "InlineHtml"

Classes == {"Heading", "Text", "List", "BlockCode", "Codio", "Image", "BlockHtml"}

\* The default of each dataclass's "type" field.
ClassType(name) ==
    CASE name = "Heading" -> "heading"
      [] name = "Text" -> "text"
      [] name = "List" -> "list"
      [] name = "BlockCode" -> "code"
      [] name = "Codio" -> "codio"
      [] name = "Image" -> "image"
      [] name = "BlockHtml" -> "html"

\* Element(obj=obj) for a class of the module.
MakeElement(name, obj) == [type |-> ClassType(name), obj |-> obj]

(***************************************************************************)
(* Slide construction on its own: Slide(elements) for every short list of  *)
(* elements, the raw-markup ones over every directive of at most two       *)
(* key=value tokens.                                                       *)
(***************************************************************************)
MaxElements == 2

Tokens ==
    {<<"effect", "fireworks">>, <<"effect", "bogus">>,
     <<"fg", "red">>, <<"fg", "pink">>,
     <<"bg", "white">>, <<"bg", "pink">>,
     <<"speed", "fast">>}

StyleTexts == {<<>>} \cup {<<t>> : t \in Tokens} \cup {<<t, u>> : t, u \in Tokens}

SlideElements ==
    {MakeElement("Heading", Node("heading")), MakeElement("BlockCode", Node("block_code"))}
        \cup {MakeElement("BlockHtml", Html(kv)) : kv \in StyleTexts}

SeqsUpTo(S, n) == UNION {[1..m -> S] : m \in 0..n}

\* The fields as lines 231-240 set them, before the scan and the checks.
NewSlide(elements) ==
    [ok |-> FALSE, error |-> NoError, elements |-> elements,
     has_style |-> FALSE, has_effect |-> FALSE, has_image |-> FALSE,
     has_code |-> FALSE, has_codio |-> FALSE, style |-> EmptyStyle,
     effect |-> None, fg_color |-> DefaultFg, bg_color |-> DefaultBg]

ParseIdle ==
    /\ ast = <<>> /\ i = 1 /\ buffer = <<>> /\ slides = <<>>
    /\ sliden = 0 /\ pc = "idle" /\ err = NoError

SlideIdle == s_elements = <<>> /\ s_slide = NewSlide(<<>>) /\ s_pc = "idle"

ElementIdle ==
    /\ el = [type |-> "none"] /\ term = <<0, 0>> /\ rendered = FALSE
    /\ r_out = <<>> /\ size_first = <<>> /\ size_after = <<>> /\ w_out = <<>>

SlideSpecInit ==
    /\ s_elements \in SeqsUpTo(SlideElements, MaxElements)
    /\ s_slide = NewSlide(s_elements)
    /\ s_pc = "new"
    /\ ParseIdle
    /\ ElementIdle

\* Slide.__init__ returns.
SlideBuilt ==
    /\ s_pc = "new"
    /\ SlideInit(s_elements).ok
    /\ s_slide' = SlideInit(s_elements)
    /\ s_pc' = "built"
    /\ UNCHANGED <<s_elements, parseVars, elemVars>>

\* Slide.__init__ raises.
SlideRaised ==
    /\ s_pc = "new"
    /\ ~SlideInit(s_elements).ok
    /\ s_slide' = SlideInit(s_elements)
    /\ s_pc' = "raised"
    /\ UNCHANGED <<s_elements, parseVars, elemVars>>

SlideSpecNext == SlideBuilt \/ SlideRaised

SlideSpec == SlideSpecInit /\ [][SlideSpecNext]_vars

(***************************************************************************)
(* Markdown.parse.  One action per way through the body of the loop of     *)
(* lines 304-341, the end-of-document flush of lines 339-341 included in   *)
(* the iterations that reach it, and one for the return of line 343.       *)
(***************************************************************************)
MaxNodes == 4

ParseNodes ==
    {Node("newline"), Node("thematic_break"), Node("heading"), Node("block_code"),
     Node("table"),
     Html(<<>>), Html(<<<<"effect", "fireworks">>>>), Html(<<<<"effect", "bogus">>>>),
     Html(<<<<"fg", "pink">>>>),
     Paragraph(<<Node("text")>>),
     Paragraph(<<Node("strong")>>),
     Paragraph(<<ImageNode("codio", TRUE)>>),
     Paragraph(<<Node("text"), ImageNode("logo", FALSE)>>)}

\* Element(obj=obj) of lines 324 and 337, and Codio(obj=codio) of lines 318-320
\* (the script loaded from obj["src"] is kept as the node naming it): the
\* elements appended, or the exception.  Image.__init__ (lines 196-200) and
\* open() raise FileNotFoundError for a file that does not exist.
Construct(name, obj) ==
    IF name \in {"Image", "Codio"} /\ ~obj.exists
    THEN [elements |-> <<>>, error |-> MissingAsset("src")]
    ELSE [elements |-> <<MakeElement(name, obj)>>, error |-> NoError]

\* Lines 317-328 for one child of a paragraph, n slides flushed so far.
AdaptChild(child, n) ==
    IF child.type = "image" /\ child.alt = "codio"
    THEN Construct("Codio", child)
    ELSE IF ElementName(child.type) \notin Classes
    THEN [elements |-> <<>>, error |-> UnsupportedElementKind(n + 1, ElementName(child.type))]
    ELSE Construct(ElementName(child.type), child)

\* Lines 330-337 for a node that is no paragraph.
AdaptBlock(obj, n) ==
    IF ElementName(obj.type) \notin Classes
    THEN [elements |-> <<>>, error |-> UnsupportedElementKind(n + 1, ElementName(obj.type))]
    ELSE Construct(ElementName(obj.type), obj)

\* Lines 315-328: the children appended to buf in order, up to the first raise.
RECURSIVE AdaptChildren(_, _, _)
AdaptChildren(children, buf, n) ==
    IF children = <<>>
    THEN [elements |-> buf, error |-> NoError]
    ELSE LET r == AdaptChild(Head(children), n)
         IN  IF r.error # NoError
             THEN [elements |-> buf, error |-> r.error]
             ELSE AdaptChildren(Tail(children), buf \o r.elements, n)

\* The condition of line 308 without its test of the buffer.
IsBreakFlush_AnyBuffer(obj, buf) == obj.type = "thematic_break"

\* The condition of line 308.
IsBreakFlush(obj, buf) == obj.type = "thematic_break" /\ buf # <<>>

\* The condition of line 339 (i counts from 1 here).
IsLast == i = Len(ast)

ParseInit ==
    /\ ast \in SeqsUpTo(ParseNodes, MaxNodes)
    /\ i = 1
    /\ buffer = <<>>
    /\ slides = <<>>
    /\ sliden = 0
    /\ pc = "loop"
    /\ err = NoError
    /\ SlideIdle
    /\ ElementIdle

Raise(e) ==
    /\ pc' = "failed"
    /\ err' = e
    /\ UNCHANGED <<ast, i, buffer, slides, sliden>>

\* Lines 305-306.
ParseNewline ==
    /\ pc = "loop" /\ i <= Len(ast)
    /\ ast[i].type = "newline"
    /\ i' = i + 1
    /\ UNCHANGED <<ast, buffer, slides, sliden, pc, err, slideVars, elemVars>>

\* Lines 308-312.
ParseBreak ==
    /\ pc = "loop" /\ i <= Len(ast)
    /\ ast[i].type # "newline"
    /\ IsBreakFlush(ast[i], buffer)
    /\ LET s == SlideInit(buffer)
       IN  IF s.ok
           THEN /\ slides' = Append(slides, s)
                /\ sliden' = sliden + 1
                /\ buffer' = <<>>
                /\ i' = i + 1
                /\ UNCHANGED <<ast, pc, err>>
           ELSE Raise(s.error)
    /\ UNCHANGED <<slideVars, elemVars>>

\* Lines 339-341 after an iteration that left buf in the buffer.
EndOfIteration(buf) ==
    IF IsLast
    THEN LET s == SlideInit(buf)
         IN  IF s.ok
             THEN /\ slides' = Append(slides, s)
                  /\ sliden' = sliden + 1
                  /\ buffer' = buf
                  /\ i' = i + 1
                  /\ UNCHANGED <<ast, pc, err>>
             ELSE Raise(s.error)
    ELSE /\ buffer' = buf
         /\ i' = i + 1
         /\ UNCHANGED <<ast, slides, sliden, pc, err>>

\* Lines 314-328, then 339-341.
ParseParagraph ==
    /\ pc = "loop" /\ i <= Len(ast)
    /\ ast[i].type = "paragraph"
    /\ LET r == AdaptChildren(ast[i].children, buffer, sliden)
       IN  IF r.error # NoError THEN Raise(r.error) ELSE EndOfIteration(r.elements)
    /\ UNCHANGED <<slideVars, elemVars>>

\* Lines 329-337, then 339-341: every node that is no newline, no paragraph and
\* did not flush at line 308.
ParseBlock ==
    /\ pc = "loop" /\ i <= Len(ast)
    /\ ast[i].type \notin {"newline", "paragraph"}
    /\ ~IsBreakFlush(ast[i], buffer)
    /\ LET r == AdaptBlock(ast[i], sliden)
       IN  IF r.error # NoError
           THEN Raise(r.error)
           ELSE EndOfIteration(buffer \o r.elements)
    /\ UNCHANGED <<slideVars, elemVars>>

\* Line 343.
ParseReturn ==
    /\ pc = "loop" /\ i > Len(ast)
    /\ pc' = "done"
    /\ UNCHANGED <<ast, i, buffer, slides, sliden, err, slideVars, elemVars>>

Init == ParseInit

Next == ParseNewline \/ ParseBreak \/ ParseParagraph \/ ParseBlock \/ ParseReturn

Spec == Init /\ [][Next]_vars

(***************************************************************************)
(* Codio.  A line of the script is the dict yaml.load gives: "keys" is the *)
(* set of keys the line has, and dict.get(key, default) is Get.  The       *)
(* booleans of "bold" and "underline" are kept as the strings True/False   *)
(* so that a frame field holds them or None.                               *)
(***************************************************************************)
Get(l, key, default) == IF key \in l.keys THEN l[key] ELSE default

\* The default of line.get("progressChar", ...): U+2588, the full block.
FullBlock == "FULL_BLOCK"

\* l.get("progress") is not None and l["progress"]
HasProgress(l) == "progress" \in l.keys /\ l.progress

\* The candidate of lines 133-139 without the spaces counted again.
LineWidth_NoSpaces(l, tw) ==
    Max(IF HasProgress(l) THEN tw ELSE 0,
        Max(Len(Get(l, "prompt", <<>>)),
            Max(Len(Get(l, "in", <<>>)), Len(Get(l, "out", <<>>)))))

\* Lines 124-139: the largest of the candidates of one line, tw being
\* _terminal_width.
LineWidth(l, tw) ==
    LET prompt == Get(l, "prompt", <<>>)
        inp == Get(l, "in", <<>>)
        out == Get(l, "out", <<>>)
        _magic_width == IF HasProgress(l) THEN tw ELSE 0
    IN  Max(_magic_width,
            Max(Len(prompt),
                Max(Len(inp) + Count(inp, " "), Len(out) + Count(out, " "))))

RECURSIVE WidthLoop(_, _, _)
WidthLoop(lines, _width, tw) ==
    IF lines = <<>> THEN _width
    ELSE WidthLoop(Tail(lines), Max(_width, LineWidth(Head(lines), tw)), tw)

\* Codio.width, lines 118-141; int(columns / 4) of a count of columns is the
\* floor of the quotient.
CodioWidth(obj, columns) == WidthLoop(obj.lines, 0, columns \div 4) + 4

\* Codio.size, lines 143-153.
CodioSize(obj) ==
    Len(obj.lines) + 2
        + Cardinality({j \in 1..Len(obj.lines) :
              Get(obj.lines[j], "in", <<>>) # <<>> /\ Get(obj.lines[j], "out", <<>>) # <<>>})

\* Lines 160-189 for one line without the collapse of lines 177-179.
RenderLine_NoCollapse(line, _width) ==
    IF HasProgress(line)
    THEN <<[prompt |-> <<>>,
            in |-> Repeat(Get(line, "progressChar", FullBlock), (3 * _width) \div 5),
            out |-> <<>>]>>
    ELSE LET prompt == Get(line, "prompt", <<>>)
             inp == Get(line, "in", <<>>)
             out == Get(line, "out", <<>>)
         IN  IF prompt = <<>> /\ inp = <<>> /\ out = <<>>
             THEN <<>>
             ELSE <<[prompt |-> prompt, in |-> inp, out |-> out,
                     color |-> Get(line, "color", None),
                     bold |-> Get(line, "bold", None),
                     underline |-> Get(line, "underline", None)]>>

\* Lines 160-189 for one line: the frames it adds to _code (one or none).
\* int(0.6 * _width) is floor(3 * _width / 5) for every width a str can have.
RenderLine(line, _width) ==
    IF HasProgress(line)
    THEN <<[prompt |-> <<>>,
            in |-> Repeat(Get(line, "progressChar", FullBlock), (3 * _width) \div 5),
            out |-> <<>>]>>
    ELSE LET prompt == Get(line, "prompt", <<>>)
             inp == Get(line, "in", <<>>)
             out == Get(line, "out", <<>>)
             only_prompt == prompt # <<>> /\ inp = <<>> /\ out = <<>>
         IN  IF prompt = <<>> /\ inp = <<>> /\ out = <<>>
             THEN <<>>
             ELSE <<[prompt |-> IF only_prompt THEN <<>> ELSE prompt,
                     in |-> inp,
                     out |-> IF only_prompt THEN prompt ELSE out,
                     color |-> Get(line, "color", None),
                     bold |-> Get(line, "bold", None),
                     underline |-> Get(line, "underline", None)]>>

RECURSIVE RenderLoop(_, _)
RenderLoop(lines, _width) ==
    IF lines = <<>> THEN <<>>
    ELSE RenderLine(Head(lines), _width) \o RenderLoop(Tail(lines), _width)

\* Codio.render, lines 155-191.
CodioRender(obj, columns) == RenderLoop(obj.lines, CodioWidth(obj, columns))

(***************************************************************************)
(* Codio on its own: width and render() of every script of at most         *)
(* MaxLines lines, each line with or without each of prompt, in and out,   *)
(* without a progress flag or with it false or true, plain or styled.      *)
(***************************************************************************)
MaxLines == 2

Line(p, n, o, g, st) ==
    [keys |-> (IF p THEN {"prompt"} ELSE {}) \cup (IF n THEN {"in"} ELSE {})
                \cup (IF o THEN {"out"} ELSE {})
                \cup (IF g # "absent" THEN {"progress"} ELSE {})
                \cup (IF st THEN {"color", "bold", "progressChar"} ELSE {}),
     prompt |-> IF p THEN <<"$", " ">> ELSE <<>>,
     in |-> IF n THEN <<"l", "s", " ", "-", "l">> ELSE <<>>,
     out |-> IF o THEN <<"a", " ", "b", " ", "c">> ELSE <<>>,
     progress |-> g = "true",
     progressChar |-> IF st THEN "#" ELSE "",
     color |-> IF st THEN "red" ELSE "",
     bold |-> IF st THEN "True" ELSE "",
     underline |-> ""]

CodioLines ==
    {Line(p, n, o, g, st) :
        p \in BOOLEAN, n \in BOOLEAN, o \in BOOLEAN,
        g \in {"absent", "false", "true"}, st \in BOOLEAN}

Script(lines) == [speed |-> 1, lines |-> lines]

Terminals == {<<80, 24>>, <<10, 5>>}

CodioSpecInit ==
    /\ el \in {MakeElement("Codio", Script(ls)) : ls \in SeqsUpTo(CodioLines, MaxLines)}
    /\ term \in Terminals
    /\ rendered = FALSE
    /\ r_out = <<>> /\ size_first = <<>> /\ size_after = <<>> /\ w_out = <<>>
    /\ ParseIdle
    /\ SlideIdle

\* A read of Codio.width.
CodioGetWidth ==
    /\ el.type = "codio"
    /\ w_out = <<>>
    /\ w_out' = <<CodioWidth(el.obj, term[1])>>
    /\ UNCHANGED <<el, term, rendered, r_out, size_first, size_after, parseVars, slideVars>>

\* A call of Codio.render.
CodioDoRender ==
    /\ el.type = "codio"
    /\ ~rendered
    /\ r_out' = <<Ok(CodioRender(el.obj, term[1]))>>
    /\ rendered' = TRUE
    /\ UNCHANGED <<el, term, size_first, size_after, w_out, parseVars, slideVars>>

CodioSpecNext == CodioGetWidth \/ CodioDoRender

CodioSpec == CodioSpecInit /\ [][CodioSpecNext]_vars

(***************************************************************************)
(* The other element classes: size and render() of each.                   *)
(***************************************************************************)
\* The number of lines of Figlet().renderText(text): the rows of the font
\* for a text that has letters, none for the empty text.
FigletHeight == 6

FigletLines(text) == IF text = <<>> THEN 0 ELSE FigletHeight

\* self.obj["children"][0]["text"] of lines 25 and 33.
HeadingText(obj) ==
    IF obj.children = <<>> THEN RaisedText("IndexError")
    ELSE IF "text" \notin DOMAIN obj.children[1] THEN RaisedText("KeyError")
    ELSE Ok(obj.children[1].text)

\* Heading.size, lines 21-30.
HeadingSize(obj) ==
    IF obj.level = 1
    THEN IF HeadingText(obj).ok
         THEN Ok(FigletLines(HeadingText(obj).value))
         ELSE Raised(HeadingText(obj).exc)
    ELSE IF obj.level = 2 THEN Ok(2)
    ELSE Ok(1)

\* Heading.render, lines 32-41; the banner is kept as its rows, each ended
\* by a newline.
HeadingRender(obj) ==
    LET t == HeadingText(obj)
    IN  IF ~t.ok THEN t
        ELSE IF obj.level = 1
        THEN Ok([j \in 1..(2 * FigletLines(t.value)) |-> IF j % 2 = 1 THEN "ROW" ELSE NL])
        ELSE IF obj.level = 2
        THEN Ok(t.value \o <<NL>> \o Repeat("-", Len(t.value)))
        ELSE t

\* "\n".join(lines)
RECURSIVE Join(_)
Join(lines) ==
    IF lines = <<>> THEN <<>>
    ELSE IF Len(lines) = 1 THEN lines[1]
    ELSE lines[1] \o <<NL>> \o Join(Tail(lines))

\* The bullet of line 68, U+2022.
Bullet == "BULLET"

\* List.walk, lines 62-73: the lines of the children of obj at a level.  The
\* test of line 70 is of obj, which has children whenever the loop runs, so
\* every child is walked.
RECURSIVE Walk(_, _), WalkChildren(_, _)
Walk(obj, level) ==
    WalkChildren(IF "children" \in DOMAIN obj THEN obj.children ELSE <<>>, level)

WalkChildren(children, level) ==
    IF children = <<>> THEN <<>>
    ELSE LET child == Head(children)
             own == IF "text" \in DOMAIN child
                    THEN <<Repeat(" ", 2 * level) \o <<Bullet, " ">> \o child.text>>
                    ELSE <<>>
         IN  own \o Walk(child, level + 1) \o WalkChildren(Tail(children), level)

\* str.splitlines() for a text whose only line boundary is "\n".
RECURSIVE SplitLines(_)
SplitLines(s) ==
    LET at == {j \in 1..Len(s) : s[j] = NL}
    IN  IF s = <<>> THEN <<>>
        ELSE IF at = {} THEN <<s>>
        ELSE LET k == CHOOSE j \in at : \A m \in at : j <= m
             IN  <<SubSeq(s, 1, k - 1)>> \o SplitLines(SubSeq(s, k + 1, Len(s)))

RECURSIVE MaxLen(_)
MaxLen(lines) == IF lines = <<>> THEN 0 ELSE Max(Len(Head(lines)), MaxLen(Tail(lines)))

\* BlockCode.pad, lines 88-99; max() of no line raises ValueError.
Pad(s) ==
    LET lines == SplitLines(s)
        max_len == MaxLen(lines)
        border == Repeat(" ", max_len + 2)
        row(l) == <<" ">> \o l \o Repeat(" ", max_len + 1 - Len(l))
    IN  IF lines = <<>> THEN RaisedText("ValueError")
        ELSE Ok(Join(<<border>> \o [j \in 1..Len(lines) |-> row(lines[j])] \o <<border>>))

\* The size property of each class: lines 21-30, 49-51, 75-77, 101-103,
\* 143-153, 202-205 and 216-218.
SizeOf(e, t) ==
    CASE e.type = "heading" -> HeadingSize(e.obj)
      [] e.type = "text" -> Ok(1)
      [] e.type = "list" -> Ok(Len(Walk(e.obj, 0)))
      [] e.type = "code" -> Ok(Len(SplitLines(e.obj.text)))
      [] e.type = "codio" -> Ok(CodioSize(e.obj))
      [] e.type = "image" -> Ok(t[2] \div 2)
      [] e.type = "html" -> Raised("NotImplementedError")

\* render() of each class: lines 32-41, 53-54, 79-80, 105-106, 155-191,
\* 207-208 and 225-226.
RenderOf(e, t) ==
    CASE e.type = "heading" -> HeadingRender(e.obj)
      [] e.type = "text" -> Ok(e.obj.text)
      [] e.type = "list" -> Ok(Join(Walk(e.obj, 0)))
      [] e.type = "code" -> Pad(e.obj.text)
      [] e.type = "codio" -> Ok(CodioRender(e.obj, t[1]))
      [] e.type = "image" -> RaisedText("NotImplementedError")
      [] e.type = "html" -> RaisedText("NotImplementedError")

\* A render() of BlockCode that keeps the padded text in self.obj.
ObjAfterRender_PadInPlace(e) ==
    IF e.type = "code" /\ Pad(e.obj.text).ok
    THEN [e.obj EXCEPT !.text = Pad(e.obj.text).value]
    ELSE e.obj

\* self.obj after a render(): no render() assigns to self.obj or to a part
\* of it, and List.walk fills a list of its own.
ObjAfterRender(e) == e.obj

(***************************************************************************)
(* The elements on their own: size read before and after render(), for     *)
(* elements of every class.                                                *)
(***************************************************************************)
MaxText == 3

Hi == <<"H", "i">>

HeadingObjs ==
    {[type |-> "heading", level |-> lv, children |-> cs] :
        lv \in 1..3,
        cs \in {<<[type |-> "text", text |-> Hi]>>,
                <<[type |-> "text", text |-> <<>>]>>,
                <<[type |-> "strong", children |-> <<[type |-> "text", text |-> Hi]>>]>>,
                <<>>}}

\* A list node is walked through "children" and "text" alone: an item that
\* carries its text, with or without nested items, or a container without
\* text of its own.
Item(text, children) == [type |-> "list_item", text |-> text, children |-> children]

Container(children) == [type |-> "list_item", children |-> children]

ListOf(items) == [type |-> "list", children |-> items]

ListObjs ==
    {ListOf(<<>>),
     [type |-> "list"],
     ListOf(<<Item(<<"a">>, <<>>), Item(<<"b">>, <<>>)>>),
     ListOf(<<Item(<<"a">>, <<Item(<<"c">>, <<>>)>>), Item(<<"b">>, <<>>)>>),
     ListOf(<<Container(<<[type |-> "text", text |-> <<"a">>]>>)>>)}

CodeObjs == {[type |-> "block_code", text |-> tx] : tx \in SeqsUpTo({"a", NL}, MaxText)}

PlainLines ==
    {Line(p, n, o, "absent", FALSE) : p \in BOOLEAN, n \in BOOLEAN, o \in BOOLEAN}

Elements ==
    {MakeElement("Heading", o) : o \in HeadingObjs}
        \cup {MakeElement("Text", [type |-> "text", text |-> tx]) : tx \in {<<>>, Hi}}
        \cup {MakeElement("List", o) : o \in ListObjs}
        \cup {MakeElement("BlockCode", o) : o \in CodeObjs}
        \cup {MakeElement("Codio", Script(ls)) : ls \in SeqsUpTo(PlainLines, MaxLines)}
        \cup {MakeElement("Image", ImageNode("logo", TRUE))}
        \cup {MakeElement("BlockHtml", Html(kv)) : kv \in {<<>>, <<<<"fg", "red">>>>}}

ElementSpecInit ==
    /\ el \in Elements
    /\ term \in Terminals
    /\ rendered = FALSE
    /\ r_out = <<>> /\ size_first = <<>> /\ size_after = <<>> /\ w_out = <<>>
    /\ ParseIdle
    /\ SlideIdle

\* A read of size before any render().
SizeBeforeRender ==
    /\ el.type # "none"
    /\ ~rendered /\ size_first = <<>>
    /\ size_first' = <<SizeOf(el, term)>>
    /\ UNCHANGED <<el, term, rendered, r_out, size_after, w_out, parseVars, slideVars>>

\* A read of size after a render().
SizeAfterRender ==
    /\ el.type # "none"
    /\ rendered /\ size_after = <<>>
    /\ size_after' = <<SizeOf(el, term)>>
    /\ UNCHANGED <<el, term, rendered, r_out, size_first, w_out, parseVars, slideVars>>

\* A call of render(), returning or raising.
Render ==
    /\ el.type # "none"
    /\ ~rendered
    /\ r_out' = <<RenderOf(el, term)>>
    /\ el' = [el EXCEPT !.obj = ObjAfterRender(el)]
    /\ rendered' = TRUE
    /\ UNCHANGED <<term, size_first, size_after, w_out, parseVars, slideVars>>

ElementSpecNext == SizeBeforeRender \/ SizeAfterRender \/ Render

ElementSpec == ElementSpecInit /\ [][ElementSpecNext]_vars

(***************************************************************************)
(* Properties of Slide construction (SlideSpec).                           *)
(***************************************************************************)
\* The style directive of the elements given to the constructor.
Directive == SlideStyle(s_elements)

Registered(key) ==
    IF key = "effect" THEN Directive[key] \in EFFECTS ELSE Directive[key] \in DOMAIN COLORMAP

Unregistered(key) == Directive[key] # None /\ ~Registered(key)

SlideReturned == s_pc = "built"

SlideFailed == s_pc = "raised"

EffectExclusive ==
    SlideReturned =>
        /\ ~(s_slide.has_effect /\ (Directive["fg"] # None \/ Directive["bg"] # None))
        /\ ~(s_slide.has_effect /\ HasType(s_elements, "code"))

EffectConflict ==
    Registered("effect")
        /\ (Registered("fg") \/ Registered("bg") \/ HasType(s_elements, "code"))

\* C1 as stated: a constructed Slide never has an active effect together with
\* an fg or bg key or with a code-block element, and a registered effect
\* combined with a registered fg/bg color or with a code block makes the
\* construction fail with IncompatibleStyle.
C1_AsStated ==
    s_pc # "new" =>
        /\ EffectExclusive
        /\ EffectConflict => SlideFailed /\ s_slide.error.kind = "IncompatibleStyle"

\* C1 amended: as C1, but the failure of a registered effect combined with a
\* registered fg/bg color or with a code block is UnsupportedColor when the
\* directive also names an unregistered fg or bg color, and IncompatibleStyle
\* otherwise.
C1_EffectExcludesColorAndCode ==
    s_pc # "new" =>
        /\ EffectExclusive
        /\ EffectConflict =>
              /\ SlideFailed
              /\ s_slide.error.kind =
                    IF Unregistered("fg") \/ Unregistered("bg")
                    THEN "UnsupportedColor" ELSE "IncompatibleStyle"

\* A registered effect on a slide with a code block: the construction failed.
C1_Witness ==
    /\ SlideFailed /\ s_slide.error = EffectsAndCode
    /\ Registered("effect") /\ HasType(s_elements, "code")

\* C9: a constructed Slide has fg 0 and bg 7 when no style directive is found
\* or the directive sets none of effect/fg/bg, fg 7 and bg 0 when an effect is
\* active, and otherwise the registry index of each fg/bg name given, the
\* default kept for the one not given.
C9_ResolvedColors ==
    SlideReturned =>
        LET d == Directive
            fg == s_slide.fg_color
            bg == s_slide.bg_color
        IN  /\ ~HasType(s_elements, "html") => fg = 0 /\ bg = 7
            /\ (d["effect"] = None /\ d["fg"] = None /\ d["bg"] = None) => fg = 0 /\ bg = 7
            /\ s_slide.has_effect = (d["effect"] # None)
            /\ s_slide.has_effect => fg = 7 /\ bg = 0
            /\ ~s_slide.has_effect =>
                  /\ fg = IF d["fg"] # None THEN COLORMAP[d["fg"]] ELSE 0
                  /\ bg = IF d["bg"] # None THEN COLORMAP[d["bg"]] ELSE 7

\* A Slide built with an effect, and so with the override colors.
C9_Witness ==
    SlideReturned /\ s_slide.has_effect /\ s_slide.fg_color = 7 /\ s_slide.bg_color = 0

\* C10: the checks apply in the order effect lookup, fg lookup, bg lookup,
\* effect-with-color conflict, effect-with-code conflict, and the construction
\* fails with the first that does not pass: an unregistered effect always gives
\* UnsupportedEffect, a registered effect with an unregistered fg or bg gives
\* UnsupportedColor, not IncompatibleStyle.
C10_CheckOrder ==
    s_pc # "new" =>
        LET d == Directive
            e == s_slide.error
        IN  IF Unregistered("effect")
            THEN SlideFailed /\ e = UnsupportedEffect(d["effect"])
            ELSE IF Unregistered("fg")
            THEN SlideFailed /\ e = UnsupportedColor(d["fg"])
            ELSE IF Unregistered("bg")
            THEN SlideFailed /\ e = UnsupportedColor(d["bg"])
            ELSE IF d["effect"] # None /\ (d["fg"] # None \/ d["bg"] # None)
            THEN SlideFailed /\ e = EffectsAndColors
            ELSE IF d["effect"] # None /\ HasType(s_elements, "code")
            THEN SlideFailed /\ e = EffectsAndCode
            ELSE SlideReturned

\* A registered effect with an unregistered color: UnsupportedColor.
C10_Witness ==
    /\ SlideFailed /\ s_slide.error.kind = "UnsupportedColor"
    /\ Registered("effect")

(***************************************************************************)
(* Properties of Markdown.parse (Spec).                                    *)
(***************************************************************************)
\* The elements the adapter builds from the nodes of a document, in order.
RECURSIVE DocumentElements(_)
DocumentElements(nodes) ==
    IF nodes = <<>> THEN <<>>
    ELSE LET obj == Head(nodes)
             own == IF obj.type \in {"newline", "thematic_break"} THEN <<>>
                    ELSE IF obj.type = "paragraph"
                    THEN AdaptChildren(obj.children, <<>>, 0).elements
                    ELSE AdaptBlock(obj, 0).elements
         IN  own \o DocumentElements(Tail(nodes))

RECURSIVE SlidesElements(_)
SlidesElements(ss) ==
    IF ss = <<>> THEN <<>> ELSE Head(ss).elements \o SlidesElements(Tail(ss))

\* C2: when the load does not fail, the element lists of the returned Slides,
\* concatenated in slide order, are the elements built from the document's
\* nodes in document order: the buffer left at the end of the document is
\* flushed into a trailing Slide whatever node comes last.
C2_NoElementLost == pc = "done" => SlidesElements(slides) = DocumentElements(ast)

\* C3: the number of Slides is the number of flushes, and no Slide is built
\* from an empty buffer: every Slide holds at least one element, the one of
\* the end-of-document flush included.
C3_NoEmptySlide ==
    /\ Len(slides) = sliden
    /\ \A k \in 1..Len(slides) : Len(slides[k].elements) >= 1

\* A load that returned two Slides, the second from the end-of-document flush.
C3_Witness ==
    /\ pc = "done" /\ Len(slides) = 2
    /\ ast[Len(ast)].type \notin {"thematic_break", "newline"}

\* C4: a thematic break only separates slides: with a non-empty buffer it
\* makes one Slide of the buffer and empties the buffer, with an empty buffer it
\* leaves the slides and the buffer as they are, and it never fails the load
\* with UnsupportedElementKind.
C4_BreakOnlySeparates ==
    [][(pc = "loop" /\ i <= Len(ast) /\ ast[i].type = "thematic_break") =>
          /\ err'.kind # "UnsupportedElementKind"
          /\ IF buffer # <<>>
             THEN \/ pc' = "failed"
                  \/ /\ Len(slides') = Len(slides) + 1
                     /\ slides'[Len(slides')].elements = buffer
                     /\ buffer' = <<>>
             ELSE slides' = slides /\ buffer' = buffer /\ pc' = "loop"]_vars

\* C5: every failure of a load carries the 1-based index of the offending
\* slide, the number of slides flushed plus one, and the offending name.
C5_FailureCarriesSlideAndName ==
    pc = "failed" => err.slide = sliden + 1 /\ err.name # ""

(***************************************************************************)
(* Properties of Codio (CodioSpec).                                        *)
(***************************************************************************)
SetMax(S) == CHOOSE m \in S : \A x \in S : x <= m

\* The candidates of one line for a terminal of C columns.
Candidates(l, C) ==
    {IF HasProgress(l) THEN SetMax({q \in 0..C : 4 * q <= C}) ELSE 0,
     Len(Get(l, "prompt", <<>>)),
     Len(Get(l, "in", <<>>)) + Count(Get(l, "in", <<>>), " "),
     Len(Get(l, "out", <<>>)) + Count(Get(l, "out", <<>>), " ")}

\* 4 plus the largest candidate of all lines.
SessionWidth(lines, C) ==
    4 + SetMax({0} \cup UNION {Candidates(lines[j], C) : j \in 1..Len(lines)})

\* C7: Codio.width is 4 plus the maximum over all lines of floor(C/4) for a
\* progress line (0 otherwise), the prompt length, the input length plus its
\* spaces and the output length plus its spaces; a progress line contributes
\* 20 when C = 80 and an empty script has width 4.
C7_Width ==
    w_out # <<>> =>
        /\ w_out[1] = SessionWidth(el.obj.lines, term[1])
        /\ el.obj.lines = <<>> => w_out[1] = 4
        /\ (term[1] = 80 /\ \E j \in 1..Len(el.obj.lines) : HasProgress(el.obj.lines[j]))
              => w_out[1] >= 20 + 4

\* The width of a script with a progress line on 80 columns, which is 24.
C7_Witness ==
    /\ w_out = <<24>> /\ term[1] = 80
    /\ \E j \in 1..Len(el.obj.lines) : HasProgress(el.obj.lines[j])

AllEmpty(l) ==
    Get(l, "prompt", <<>>) = <<>> /\ Get(l, "in", <<>>) = <<>> /\ Get(l, "out", <<>>) = <<>>

\* The lines that yield a frame, in script order.
Framed(lines) ==
    LET yields(j) == HasProgress(lines[j]) \/ ~AllEmpty(lines[j])
    IN  SelectSeq([j \in 1..Len(lines) |-> j], yields)

Styling(f, l) ==
    /\ DOMAIN f = {"prompt", "in", "out", "color", "bold", "underline"}
    /\ f.color = Get(l, "color", None)
    /\ f.bold = Get(l, "bold", None)
    /\ f.underline = Get(l, "underline", None)

\* The frame f is the one the decision for line l gives in a session W wide.
FrameOfLine(f, l, W) ==
    IF HasProgress(l)
    THEN /\ DOMAIN f = {"prompt", "in", "out"}
         /\ f.prompt = <<>> /\ f.out = <<>>
         /\ \A k \in 1..Len(f.in) : f.in[k] = Get(l, "progressChar", FullBlock)
         /\ 10 * Len(f.in) <= 6 * W /\ 6 * W < 10 * (Len(f.in) + 1)
    ELSE IF Get(l, "in", <<>>) = <<>> /\ Get(l, "out", <<>>) = <<>>
    THEN /\ f.prompt = <<>> /\ f.in = <<>> /\ f.out = Get(l, "prompt", <<>>)
         /\ Styling(f, l)
    ELSE /\ f.prompt = Get(l, "prompt", <<>>)
         /\ f.in = Get(l, "in", <<>>)
         /\ f.out = Get(l, "out", <<>>)
         /\ Styling(f, l)

\* C6: render() returns, in script order, one frame for every line that has
\* the progress flag set or is not all empty, and none for the others: a bar
\* of floor(0.6 * width) fill characters without prompt, output or styling
\* for a progress line, output = prompt and no prompt for a line with only a
\* prompt, and prompt, input, output, color, bold, underline as given
\* otherwise.
C6_Frames ==
    (el.type = "codio" /\ r_out # <<>>) =>
        LET lines == el.obj.lines
            frames == r_out[1].value
            kept == Framed(lines)
        IN  /\ r_out[1].ok
            /\ Len(frames) = Len(kept)
            /\ \A k \in 1..Len(kept) :
                  FrameOfLine(frames[k], lines[kept[k]], SessionWidth(lines, term[1]))

\* A render on 80 columns that drew a progress bar of 14 characters and
\* collapsed a prompt-only line into its output.
C6_Witness ==
    /\ el.type = "codio" /\ r_out # <<>> /\ term[1] = 80
    /\ Len(el.obj.lines) = 2 /\ Len(r_out[1].value) = 2
    /\ HasProgress(el.obj.lines[1])
    /\ DOMAIN r_out[1].value[1] = {"prompt", "in", "out"}
    /\ Len(r_out[1].value[1].in) = 14
    /\ ~HasProgress(el.obj.lines[2])
    /\ r_out[1].value[2].prompt = <<>>
    /\ r_out[1].value[2].out = <<"$", " ">>

(***************************************************************************)
(* Properties of the elements (ElementSpec).                               *)
(***************************************************************************)
SizeReads == {r[1] : r \in {size_first, size_after} \ {<<>>}}

SizeIsNatural == \A r \in SizeReads : r.ok /\ r.value \in Nat

SizeUnmovedByRender ==
    (size_first # <<>> /\ size_after # <<>>) => size_first = size_after

SizeRaises ==
    \/ el.type = "html"
    \/ /\ el.type = "heading" /\ el.obj.level = 1
       /\ (el.obj.children = <<>> \/ "text" \notin DOMAIN el.obj.children[1])

====
